---- MODULE Spec2Model ----
(***************************************************************************)
(* State-machine model of libcloud/drivers/softlayer.py: the SoftLayer     *)
(* node driver (SoftLayerConnection.request and the SoftLayerNodeDriver    *)
(* operations create_node, destroy_node, list_nodes, reboot_node,          *)
(* list_sizes, _to_node).                                                  *)
(*                                                                         *)
(* Every driver operation is synchronous: it issues its remote calls one   *)
(* after the other and blocks on each.  An action of the model is one      *)
(* whole operation; the transport's answers to the calls it issues are     *)
(* inputs of the action.  The calls the operation issued are recorded, in  *)
(* order, in log, and what it handed back to its caller in result.         *)
(*                                                                         *)
(* Python values: None is the string "None", True/False returned by an     *)
(* operation are the strings "True"/"False"; a raised exception is a       *)
(* result of kind "raise" naming the exception class.                      *)
(***************************************************************************)
EXTENDS Integers, Sequences, FiniteSets, TLC

VARIABLES SOFTLAYER_TEMPLATES, op, arg, log, result

vars == <<SOFTLAYER_TEMPLATES, op, arg, log, result>>

(* ------------------------------ bounds -------------------------------- *)

\* Longest hardware / virtualGuests collection of an account reply.
MaxHosts == 2

\* Longest billing-item list getCurrentBillingDetail replies with.
MaxItems == 2

(* ---------------------- module-level constants ------------------------ *)

SOFTLAYER_LOCATION_WASHINGTON_DC == 37473

\* The names bound at module level that the driver's code refers to.  The
\* virtual-guest service is bound under the name SOFTLAYER_SERVICE_VIRTUAl_GUEST
\* (lower-case l); a reference to any name outside this record raises
\* NameError when it is evaluated.
ModuleGlobals ==
    [ SOFTLAYER_SERVICE_HARDWARE |-> "SoftLayer_Hardware",
      SOFTLAYER_SERVICE_VIRTUAl_GUEST |-> "SoftLayer_Virtual_Guest" ]

IsBound(name) == name \in DOMAIN ModuleGlobals

SOFTLAYER_SERVICE_HARDWARE == ModuleGlobals["SOFTLAYER_SERVICE_HARDWARE"]

SOFTLAYER_INSTANCE_TYPES ==
    [ example |-> [ id |-> "example",
                    name |-> "Example CCI WDC01 2-core 2GB 100GB 1Gbps",
                    ram |-> 2048, disk |-> 100,
                    bandwidth |-> "None", price |-> "None" ] ]

\* The default guest list of the 'example' template.
DefaultGuests == << [domain |-> "example.org", hostname |-> "newcci"] >>

\* SOFTLAYER_TEMPLATES as the module defines it.
InitialTemplates ==
    [ example |->
        [ complexType |-> "SoftLayer_Container_Product_Order_Virtual_Guest",
          location |-> SOFTLAYER_LOCATION_WASHINGTON_DC,
          packageId |-> 46,
          prices |-> <<1641, 1645, 905, 274, 1800, 21, 1639, 1696, 55, 57,
                       58, 420, 418>>,
          quantity |-> 1,
          useHourlyPricing |-> TRUE,
          virtualGuests |-> DefaultGuests ] ]

(* --------------------------- results ---------------------------------- *)

Return(v) == [kind |-> "return", exc |-> "", val |-> v, nodes |-> <<>>]

ReturnNodes(ns) == [kind |-> "return", exc |-> "", val |-> "nodes", nodes |-> ns]

Raise(e) == [kind |-> "raise", exc |-> e, val |-> "", nodes |-> <<>>]

\* What an operation leaves behind: its result, the calls it issued and the
\* template catalog after it.
Done(res, calls, templates) ==
    [result |-> res, log |-> calls, templates |-> templates]

(* --------------------------- transport -------------------------------- *)

\* The credentials the driver was constructed with.
Credentials == [user |-> "SL12345", key |-> "secret"]

\* What one XML-RPC call can end in: a decoded reply, an xmlrpclib.Fault, or
\* an error of another class (xmlrpclib.ProtocolError).
\* A reply decodes to a scalar (value), to a list of billing items (items) or
\* to the account object (account); the other two fields are left empty.
NoAccount == [hardware |-> <<>>, virtualGuests |-> <<>>]

Reply(v) ==
    [kind |-> "reply", value |-> v, items |-> <<>>, account |-> NoAccount]

ReplyItems(b) ==
    [kind |-> "reply", value |-> "", items |-> b, account |-> NoAccount]

ReplyAccount(a) ==
    [kind |-> "reply", value |-> "", items |-> <<>>, account |-> a]

Fault ==
    [kind |-> "Fault", value |-> "", items |-> <<>>, account |-> NoAccount]

ProtocolError ==
    [kind |-> "ProtocolError", value |-> "", items |-> <<>>, account |-> NoAccount]

Failures == {Fault, ProtocolError}

\* SoftLayerConnection._get_headers: the authentication block, plus the
\* init-parameters block when an id is given and the object-mask block when
\* a mask is given, both scoped to the service.
_get_headers(service, init_params) ==
    [ headers |->
        [ authenticate |-> [username |-> Credentials.user,
                            apiKey |-> Credentials.key],
          initParameters |->
              IF "id" \in DOMAIN init_params
              THEN <<[scope |-> service, id |-> init_params["id"]]>>
              ELSE <<>>,
          objectMask |->
              IF "object_mask" \in DOMAIN init_params
              THEN <<[scope |-> service, mask |-> init_params["object_mask"]]>>
              ELSE <<>> ] ]

\* request without its except clause: the Fault reaches the caller as it is.
RequestRaisesUnwrapped(kind) ==
    IF kind = "Fault" THEN "Fault"
    ELSE IF kind = "ProtocolError" THEN "ProtocolError"
    ELSE ""

\* The exception SoftLayerConnection.request raises for an outcome ("" when
\* it returns the reply): a Fault is caught and re-raised as
\* SoftLayerException, anything else passes through.
RequestRaises(kind) ==
    IF kind = "Fault" THEN "SoftLayerException"
    ELSE IF kind = "ProtocolError" THEN "ProtocolError"
    ELSE ""

\* SoftLayerConnection.request: the call as it goes out (the headers first,
\* then the positional arguments) with the outcome it met, and the exception
\* raised to the operation.
request(service, method, args, init_params, outcome) ==
    [ call |-> [ service |-> service, method |-> method,
                 params |-> <<_get_headers(service, init_params)>> \o args,
                 outcome |-> outcome.kind, value |-> outcome.value,
                 items |-> outcome.items, account |-> outcome.account ],
      exc |-> RequestRaises(outcome.kind) ]

(* --------------------------- create_node ------------------------------ *)

\* Guest lists a caller passes as virtualGuests.
CallerGuests ==
    { << [domain |-> "testdomain.com", hostname |-> "testhost"] >>,
      << [domain |-> "a.example", hostname |-> "h1"],
         [domain |-> "a.example", hostname |-> "h2"] >> }

TemplateNames == {"example", "nosuch"}

\* The keyword arguments of a create_node call: template and virtualGuests
\* are each given or not.
NoKwargs == [k \in {} |-> ""]

CreateKwargs ==
    {NoKwargs}
    \cup { [template |-> t] : t \in TemplateNames }
    \cup { [virtualGuests |-> g] : g \in CallerGuests }
    \cup { [template |-> t, virtualGuests |-> g] :
              t \in TemplateNames, g \in CallerGuests }

\* create_node without its two early returns: the lookups of kwargs and of
\* the catalog raise KeyError.
create_node_unchecked(kwargs, templates, outcome) ==
    IF "template" \notin DOMAIN kwargs \/ kwargs["template"] \notin DOMAIN templates
    THEN Done(Raise("KeyError"), <<>>, templates)
    ELSE LET template == kwargs["template"]
             after == IF "virtualGuests" \in DOMAIN kwargs
                      THEN [templates EXCEPT ![template].virtualGuests =
                                                 kwargs["virtualGuests"]]
                      ELSE templates
             r == request("SoftLayer_Product_Order", "verifyOrder",
                          <<after[template]>>, <<>>, outcome)
         IN IF r.exc # ""
            THEN Done(Raise(r.exc), <<r.call>>, after)
            ELSE Done(Return("None"), <<r.call>>, after)

\* SoftLayerNodeDriver.create_node.
create_node_op(kwargs, templates, outcome) ==
    IF "template" \notin DOMAIN kwargs
    THEN Done(Return("None"), <<>>, templates)
    ELSE LET template == kwargs["template"] IN
      IF template \notin DOMAIN templates
      THEN Done(Return("None"), <<>>, templates)
      ELSE
        \* order is the catalog entry itself, not a copy: the assignment to
        \* order['virtualGuests'] writes into SOFTLAYER_TEMPLATES.
        LET after == IF "virtualGuests" \in DOMAIN kwargs
                     THEN [templates EXCEPT ![template].virtualGuests =
                                                kwargs["virtualGuests"]]
                     ELSE templates
            order == after[template]
            r == request("SoftLayer_Product_Order", "verifyOrder",
                         <<order>>, <<>>, outcome)
        IN IF r.exc # ""
           THEN Done(Raise(r.exc), <<r.call>>, after)
           ELSE Done(Return("None"), <<r.call>>, after)

create_node ==
    \E kwargs \in CreateKwargs, outcome \in {Reply("receipt")} \cup Failures :
        LET d == create_node_op(kwargs, SOFTLAYER_TEMPLATES, outcome) IN
        /\ op' = "create_node"
        /\ arg' = kwargs
        /\ log' = d.log
        /\ result' = d.result
        /\ SOFTLAYER_TEMPLATES' = d.templates

(* ----------------------------- _to_node ------------------------------- *)

\* h with key k set to v (a dict assignment).
Put(h, k, v) == (k :> v) @@ h

\* The raw record of one compute resource as the account reply carries it:
\* the four fields every reply has, plus the status field(s) of its shape.
\* The record with id 1 has no public address yet.
HostBase(i) ==
    [ id |-> i,
      hostname |-> IF i = 1 THEN "h1" ELSE IF i = 2 THEN "h2" ELSE "h3",
      primaryIpAddress |-> IF i = 1 THEN "" ELSE "75.0.0.2",
      primaryBackendIpAddress |-> "10.0.0.1" ]

HardwareRecord == Put(HostBase(1), "hardwareStatusId", 5)

GuestRecord == Put(HostBase(2), "statusId", 1001)

BareRecord == HostBase(3)

BothRecord == Put(Put(HostBase(2), "statusId", 1001), "hardwareStatusId", 5)

\* The records of the collections of an account reply: the hardware shape
\* and the virtual-guest shape.
AccountRecords == {HardwareRecord, GuestRecord}

\* The records _to_node is applied to on its own.
RawRecords == {HardwareRecord, GuestRecord, BareRecord, BothRecord}

\* x or None
OrNone(x) == IF x = "" \/ x = "None" THEN "None" ELSE x

Converted(ns) == [exc |-> "", nodes |-> ns]

Failed(e) == [exc |-> e, nodes |-> <<>>]

\* SoftLayerNodeDriver._to_node.  The record is tagged in place, so the
\* node's extra is the record with its _service tag.
_to_node(host) ==
    IF "statusId" \in DOMAIN host /\ ~IsBound("SOFTLAYER_SERVICE_VIRTUAL_GUEST")
    THEN Failed("NameError")
    ELSE
      LET s1 == IF "statusId" \in DOMAIN host THEN host["statusId"] ELSE 0
          h1 == IF "statusId" \in DOMAIN host
                THEN Put(host, "_service",
                         ModuleGlobals["SOFTLAYER_SERVICE_VIRTUAL_GUEST"])
                ELSE host
          statusId == IF "hardwareStatusId" \in DOMAIN h1
                      THEN h1["hardwareStatusId"] ELSE s1
          h2 == IF "hardwareStatusId" \in DOMAIN h1
                THEN Put(h1, "_service", SOFTLAYER_SERVICE_HARDWARE)
                ELSE h1
      IN IF {"id", "hostname", "primaryIpAddress", "primaryBackendIpAddress"}
                \subseteq DOMAIN h2
         THEN Converted(<< [ id |-> h2["id"],
                             name |-> h2["hostname"],
                             state |-> statusId,
                             public_ip |-> OrNone(h2["primaryIpAddress"]),
                             private_ip |-> OrNone(h2["primaryBackendIpAddress"]),
                             extra |-> h2 ] >>)
         ELSE Failed("KeyError")

\* SoftLayerNodeDriver._to_nodes: the list comprehension converts the records
\* in order and stops at the first that raises.
RECURSIVE _to_nodes(_)
_to_nodes(hosts) ==
    IF hosts = <<>> THEN Converted(<<>>)
    ELSE LET h == _to_node(Head(hosts)) IN
         IF h.exc # "" THEN h
         ELSE LET t == _to_nodes(Tail(hosts)) IN
              IF t.exc # "" THEN t ELSE Converted(h.nodes \o t.nodes)

to_node ==
    \E host \in RawRecords :
        LET n == _to_node(host) IN
        /\ op' = "_to_node"
        /\ arg' = host
        /\ log' = <<>>
        /\ result' = IF n.exc # "" THEN Raise(n.exc) ELSE ReturnNodes(n.nodes)
        /\ UNCHANGED SOFTLAYER_TEMPLATES

(* ----------------------------- list_nodes ----------------------------- *)

SeqsUpTo(S, n) == UNION { [1..k -> S] : k \in 0..n }

\* The account object a getObject reply decodes to.
Accounts ==
    { [hardware |-> hw, virtualGuests |-> vg] :
        hw \in SeqsUpTo(AccountRecords, MaxHosts),
        vg \in SeqsUpTo(AccountRecords, MaxHosts) }

mask ==
    [ hardware |-> {"softwareComponents.passwords", "primaryNetworkComponent",
                    "primaryBackendNetworkComponent", "serverRoom",
                    "hourlyBillingFlag"},
      virtualGuests |-> {"softwareComponents.passwords",
                         "primaryNetworkComponent",
                         "primaryBackendNetworkComponent", "serverRoom"} ]

\* SoftLayerNodeDriver.list_nodes.
list_nodes_op(outcome) ==
    LET r == request("SoftLayer_Account", "getObject", <<>>,
                     [object_mask |-> mask], outcome)
    IN IF r.exc # "" THEN [result |-> Raise(r.exc), log |-> <<r.call>>]
       ELSE LET account == outcome.account
                hardware == _to_nodes(account.hardware)
            IN IF hardware.exc # ""
               THEN [result |-> Raise(hardware.exc), log |-> <<r.call>>]
               ELSE LET virtualguests == _to_nodes(account.virtualGuests) IN
                    IF virtualguests.exc # ""
                    THEN [result |-> Raise(virtualguests.exc), log |-> <<r.call>>]
                    ELSE [result |-> ReturnNodes(hardware.nodes \o virtualguests.nodes),
                          log |-> <<r.call>>]

list_nodes ==
    \E outcome \in {ReplyAccount(a) : a \in Accounts} \cup Failures :
        LET d == list_nodes_op(outcome) IN
        /\ op' = "list_nodes"
        /\ arg' = <<>>
        /\ log' = d.log
        /\ result' = d.result
        /\ UNCHANGED SOFTLAYER_TEMPLATES

(* ----------------------------- list_sizes ----------------------------- *)

\* One NodeSize per entry of the instance-type catalog; no remote call.
list_sizes ==
    /\ op' = "list_sizes"
    /\ arg' = <<>>
    /\ log' = <<>>
    /\ result' = [ Return("sizes") EXCEPT
                     !.nodes = <<SOFTLAYER_INSTANCE_TYPES["example"]>> ]
    /\ UNCHANGED SOFTLAYER_TEMPLATES

(* ------------------------- nodes handed back -------------------------- *)

\* Node(id, name, state, public_ip, private_ip, driver, extra) as _to_node
\* builds it.
MakeNode(extra) ==
    [ id |-> extra["id"], name |-> extra["hostname"],
      state |-> IF "hardwareStatusId" \in DOMAIN extra
                THEN extra["hardwareStatusId"] ELSE 0,
      public_ip |-> OrNone(extra["primaryIpAddress"]),
      private_ip |-> OrNone(extra["primaryBackendIpAddress"]),
      extra |-> extra ]

\* The _service tags of the nodes a caller passes to destroy_node and
\* reboot_node.  "" stands for a node without the tag.  The hardware tag is
\* the module's own constant, which is what _to_node stores.
ServiceTags ==
    {"", SOFTLAYER_SERVICE_HARDWARE, "SoftLayer_Virtual_Guest", "SoftLayer_Account"}

Tagged(h, tag) == IF tag = "" THEN h ELSE Put(h, "_service", tag)

\* bareMetalInstanceFlag: absent (-1), 0 or 1.
WithBareMetal(h, f) == IF f = -1 THEN h ELSE Put(h, "bareMetalInstanceFlag", f)

\* hourlyBillingFlag: absent, True or False.
WithHourly(h, f) ==
    IF f = "absent" THEN h ELSE Put(h, "hourlyBillingFlag", f = "True")

\* Hardware-tagged nodes with every combination of the two billing flags,
\* and one node for each other tag.
Nodes ==
    { MakeNode(WithHourly(WithBareMetal(
          Tagged(HardwareRecord, SOFTLAYER_SERVICE_HARDWARE), bm), hb)) :
        bm \in {-1, 0, 1}, hb \in {"absent", "True", "False"} }
    \cup { MakeNode(Tagged(HostBase(2), tag)) :
              tag \in ServiceTags \ {SOFTLAYER_SERVICE_HARDWARE} }

(* ----------------------------- reboot_node ---------------------------- *)

\* SoftLayerNodeDriver.reboot_node: the service and the method are literals;
\* the node contributes its id only.
reboot_node_op(node, outcome) ==
    LET r == request("SoftLayer_Virtual_Guest", "rebootHard", <<>>,
                     [id |-> node.id], outcome)
    IN IF r.exc # "" THEN [result |-> Raise(r.exc), log |-> <<r.call>>]
       ELSE [result |-> Return(outcome.value), log |-> <<r.call>>]

reboot_node ==
    \E node \in Nodes, outcome \in {Reply("True"), Reply("False")} \cup Failures :
        LET d == reboot_node_op(node, outcome) IN
        /\ op' = "reboot_node"
        /\ arg' = node
        /\ log' = d.log
        /\ result' = d.result
        /\ UNCHANGED SOFTLAYER_TEMPLATES

(* ----------------------------- destroy_node --------------------------- *)

\* The billing items of a resource: item k has id 10 + k.
Items(n) == [k \in 1..n |-> [id |-> 10 + k]]

\* Replies to getCurrentBillingDetail: a list of 0..MaxItems billing items.
\* As a reply to getBillingItem the list stands for its first item, and the
\* empty list for the empty value of a guest without a billing item.
BillingDetails == { Items(n) : n \in 0..MaxItems }

\* Outcomes of a cancelService call.
CancelOutcomes == {Reply("True"), Reply("False")} \cup Failures

\* The for loop over billing_items from item i on, then `return success`;
\* success is not bound anywhere.
RECURSIVE CancelLoop(_, _, _, _)
CancelLoop(billing_items, i, calls, cancels) ==
    IF i > Len(billing_items)
    THEN [ result |-> IF IsBound("success") THEN Return("True")
                      ELSE Raise("NameError"),
           log |-> calls ]
    ELSE LET item == billing_items[i] IN
         IF item = <<>>
         THEN [result |-> Raise("TypeError"), log |-> calls]
         ELSE LET r == request("SoftLayer_Billing_Item", "cancelService", <<>>,
                               [id |-> item.id], cancels[i])
              IN IF r.exc # ""
                 THEN [result |-> Raise(r.exc), log |-> Append(calls, r.call)]
                 ELSE IF cancels[i].value = "False"
                 THEN [result |-> Return("False"), log |-> Append(calls, r.call)]
                 ELSE CancelLoop(billing_items, i + 1, Append(calls, r.call), cancels)

\* From `if len(billing_items) == 0` to the end of destroy_node.
CancelAll(billing_items, calls, cancels) ==
    IF Len(billing_items) = 0
    THEN [result |-> Return("False"), log |-> calls]
    ELSE CancelLoop(billing_items, 1, calls, cancels)

\* SoftLayerNodeDriver.destroy_node.  The tests are identity tests (`is`):
\* the hardware tag of a node is the module's own constant, the flag 1 is the
\* interpreter's one small integer 1 and the billing flag is the bool the
\* reply decoded to, so each test decides as the equality does.  The elif
\* looks up SOFTLAYER_SERVICE_VIRTUAL_GUEST for every tag that is not the
\* hardware one.
destroy_node_op(node, fetch, cancels) ==
    IF "_service" \notin DOMAIN node.extra
    THEN [result |-> Return("False"), log |-> <<>>]
    ELSE
      LET service == node.extra["_service"] IN
      IF service = SOFTLAYER_SERVICE_HARDWARE
      THEN
        IF "bareMetalInstanceFlag" \notin DOMAIN node.extra
        THEN [result |-> Return("False"), log |-> <<>>]
        ELSE IF node.extra["bareMetalInstanceFlag"] # 1
        THEN [result |-> Return("False"), log |-> <<>>]
        ELSE IF "hourlyBillingFlag" \notin DOMAIN node.extra
        THEN [result |-> Raise("KeyError"), log |-> <<>>]
        ELSE IF node.extra["hourlyBillingFlag"] = FALSE
        THEN [result |-> Return("False"), log |-> <<>>]
        ELSE LET r == request(service, "getCurrentBillingDetail", <<>>,
                              [id |-> node.id], fetch)
             IN IF r.exc # ""
                THEN [result |-> Raise(r.exc), log |-> <<r.call>>]
                ELSE CancelAll(fetch.items, <<r.call>>, cancels)
      ELSE IF ~IsBound("SOFTLAYER_SERVICE_VIRTUAL_GUEST")
      THEN [result |-> Raise("NameError"), log |-> <<>>]
      ELSE IF service = ModuleGlobals["SOFTLAYER_SERVICE_VIRTUAL_GUEST"]
      THEN LET r == request(service, "getBillingItem", <<>>,
                            [id |-> node.id], fetch)
           IN IF r.exc # ""
              THEN [result |-> Raise(r.exc), log |-> <<r.call>>]
              ELSE CancelAll(<< IF fetch.items = <<>> THEN <<>>
                                ELSE fetch.items[1] >>, <<r.call>>, cancels)
      ELSE [result |-> Return("False"), log |-> <<>>]

\* The transport's answers to one destroy_node call: to the billing fetch,
\* and to the cancellation of each item the fetch returned.
DestroyAnswers ==
    { <<f, c>> : f \in Failures, c \in {<<>>} }
    \cup UNION { { <<ReplyItems(b), c>> : c \in [1..Len(b) -> CancelOutcomes] } :
                   b \in BillingDetails }

destroy_node ==
    \E node \in Nodes, a \in DestroyAnswers :
        LET d == destroy_node_op(node, a[1], a[2]) IN
        /\ op' = "destroy_node"
        /\ arg' = node
        /\ log' = d.log
        /\ result' = d.result
        /\ UNCHANGED SOFTLAYER_TEMPLATES

(* ------------------------------ system -------------------------------- *)

Init ==
    /\ SOFTLAYER_TEMPLATES = InitialTemplates
    /\ op = "none"
    /\ arg = <<>>
    /\ log = <<>>
    /\ result = Return("None")

Next ==
    \/ create_node
    \/ destroy_node
    \/ list_nodes
    \/ reboot_node
    \/ list_sizes
    \/ to_node

Spec == Init /\ [][Next]_vars

(* ------------------------------ claims -------------------------------- *)

\* C1: virtualGuests passed to a create_node call override the guest list of
\* that call only: whenever a create_node call names a catalog template and
\* passes no virtualGuests, whatever calls came before it, the catalog is
\* still as the module defined it and the order sent carries the template's
\* default guest list.
C1_GuestsOverrideThisCallOnly ==
    ( /\ op = "create_node"
      /\ "template" \in DOMAIN arg
      /\ "virtualGuests" \notin DOMAIN arg
      /\ Len(log) = 1 )
    => /\ SOFTLAYER_TEMPLATES = InitialTemplates
       /\ log[1].params[2].virtualGuests = DefaultGuests

\* C2: destroy_node of a hardware node that is bare metal and billed hourly
\* fetches the billing detail first, then cancels the items of the reply in
\* order; with no transport failure it returns True exactly when the list is
\* non-empty and every cancellation succeeded, and False when the list is
\* empty or a cancellation answered False.
C2_DestroyHardwareCancelsEveryItem ==
    ( /\ op = "destroy_node"
      /\ "_service" \in DOMAIN arg.extra
      /\ arg.extra["_service"] = SOFTLAYER_SERVICE_HARDWARE
      /\ "bareMetalInstanceFlag" \in DOMAIN arg.extra
      /\ arg.extra["bareMetalInstanceFlag"] = 1
      /\ "hourlyBillingFlag" \in DOMAIN arg.extra
      /\ arg.extra["hourlyBillingFlag"] = TRUE )
    =>
    /\ Len(log) >= 1
    /\ log[1].service = SOFTLAYER_SERVICE_HARDWARE
    /\ log[1].method = "getCurrentBillingDetail"
    /\ \A i \in 2..Len(log) :
          /\ log[1].outcome = "reply"
          /\ log[i].service = "SoftLayer_Billing_Item"
          /\ log[i].method = "cancelService"
          /\ i - 1 <= Len(log[1].items)
          /\ log[i].params[1].headers.initParameters[1].id = log[1].items[i - 1].id
    /\ (\A i \in 1..Len(log) : log[i].outcome = "reply")
       => LET items == log[1].items
              answers == [i \in 1..(Len(log) - 1) |-> log[i + 1].value]
          IN /\ (items = <<>> => result = Return("False") /\ Len(log) = 1)
             /\ (\E i \in DOMAIN answers : answers[i] = "False")
                   => result = Return("False")
             /\ (items # <<>> /\ \A i \in DOMAIN answers : answers[i] = "True")
                   => (Len(answers) = Len(items) /\ result = Return("True"))
             /\ result = Return("True")
                   => (items # <<>> /\ Len(answers) = Len(items)
                       /\ \A i \in DOMAIN answers : answers[i] = "True")

\* C3: destroy_node of a node tagged with the virtual-guest service issues one
\* getBillingItem call; when the guest has no billing item it returns False
\* with no further call, otherwise it issues one cancelService call for that
\* item and returns the answer of that call.
C3_DestroyGuestCancelsItsBillingItem ==
    ( /\ op = "destroy_node"
      /\ "_service" \in DOMAIN arg.extra
      /\ arg.extra["_service"] = "SoftLayer_Virtual_Guest" )
    =>
    /\ Len(log) >= 1
    /\ log[1].service = "SoftLayer_Virtual_Guest"
    /\ log[1].method = "getBillingItem"
    /\ (\A i \in 1..Len(log) : log[i].outcome = "reply")
       => IF log[1].items = <<>>
          THEN Len(log) = 1 /\ result = Return("False")
          ELSE /\ Len(log) = 2
               /\ log[2].method = "cancelService"
               /\ result = Return(log[2].value)

\* C4: destroy_node of a hardware node whose extra lacks bareMetalInstanceFlag,
\* or has it other than 1, or has hourlyBillingFlag False or lacks it, returns
\* False, issues no remote call and does not raise.
C4_IneligibleHardwareFailsSoftly ==
    ( /\ op = "destroy_node"
      /\ "_service" \in DOMAIN arg.extra
      /\ arg.extra["_service"] = SOFTLAYER_SERVICE_HARDWARE
      /\ \/ "bareMetalInstanceFlag" \notin DOMAIN arg.extra
         \/ arg.extra["bareMetalInstanceFlag"] # 1
         \/ "hourlyBillingFlag" \notin DOMAIN arg.extra
         \/ arg.extra["hourlyBillingFlag"] = FALSE )
    => (result = Return("False") /\ log = <<>>)

\* C5: reboot_node calls the service of the node's _service tag: one call to
\* the virtual-guest service for a virtual-guest node, one call to the
\* hardware service for a hardware node, and for a node without the tag no
\* call and a False result.  (Stated for the runs in which the transport
\* answered every call.)
C5_RebootDispatchesOnKind ==
    (op = "reboot_node" /\ \A i \in 1..Len(log) : log[i].outcome = "reply")
    => IF "_service" \notin DOMAIN arg.extra
       THEN log = <<>> /\ result = Return("False")
       ELSE arg.extra["_service"] \in
                {SOFTLAYER_SERVICE_HARDWARE, "SoftLayer_Virtual_Guest"}
            => (Len(log) = 1 /\ log[1].service = arg.extra["_service"])

\* C6: in every operation, a remote call that ends in a transport Fault is the
\* operation's last call, and the operation raises SoftLayerException.
C6_FaultRaisesSoftLayerException ==
    \A i \in 1..Len(log) :
        log[i].outcome = "Fault"
        => (i = Len(log) /\ result = Raise("SoftLayerException"))

\* C6, a case of it: a destroy_node whose billing fetch was answered and whose
\* cancellation call then met a Fault.
C6_FaultInCancellation ==
    /\ op = "destroy_node"
    /\ Len(log) >= 2
    /\ log[1].outcome = "reply"
    /\ log[Len(log)].method = "cancelService"
    /\ log[Len(log)].outcome = "Fault"
    /\ result = Raise("SoftLayerException")

\* C7: create_node with a template of the catalog issues exactly one remote
\* call, placeOrder of the product-order service with the order as its
\* argument, and returns None.  (Stated for the runs in which the transport
\* answered every call.)
C7_CreatePlacesOneOrder ==
    ( /\ op = "create_node"
      /\ "template" \in DOMAIN arg
      /\ arg["template"] \in DOMAIN SOFTLAYER_TEMPLATES
      /\ \A i \in 1..Len(log) : log[i].outcome = "reply" )
    =>
    /\ Len(log) = 1
    /\ log[1].service = "SoftLayer_Product_Order"
    /\ log[1].method = "placeOrder"
    /\ Len(log[1].params) = 2
    /\ log[1].params[2] = SOFTLAYER_TEMPLATES[arg["template"]]
    /\ result = Return("None")

\* C8: create_node without a template keyword, or with a template that is not
\* in the catalog, returns None, raises nothing, issues no remote call and
\* leaves the catalog as it was.
C8_UnknownTemplateFailsSoftly ==
    [][ ( /\ op' = "create_node"
          /\ \/ "template" \notin DOMAIN arg'
             \/ arg'["template"] \notin DOMAIN SOFTLAYER_TEMPLATES )
        => ( /\ result' = Return("None")
             /\ log' = <<>>
             /\ SOFTLAYER_TEMPLATES' = SOFTLAYER_TEMPLATES ) ]_vars

\* C8, a case of it: a create_node call naming an unknown template and passing
\* guests has returned None without a call, after an earlier call had already
\* written caller guests into the catalog.
C8_UnknownTemplateWithGuests ==
    /\ op = "create_node"
    /\ "template" \in DOMAIN arg
    /\ arg["template"] = "nosuch"
    /\ "virtualGuests" \in DOMAIN arg
    /\ result = Return("None")
    /\ log = <<>>
    /\ SOFTLAYER_TEMPLATES # InitialTemplates

\* C9: _to_node of a record with statusId and no hardwareStatusId yields a
\* node tagged with the virtual-guest service whose state is statusId; with
\* hardwareStatusId and no statusId a node tagged with the hardware service
\* whose state is hardwareStatusId; with neither a node of state 0 without a
\* tag.
C9_ToNodeTagsKind ==
    op = "_to_node"
    => LET hasS == "statusId" \in DOMAIN arg
           hasH == "hardwareStatusId" \in DOMAIN arg
       IN (hasS # hasH \/ (~hasS /\ ~hasH))
          => /\ result.kind = "return"
             /\ Len(result.nodes) = 1
             /\ LET n == result.nodes[1] IN
                IF hasS
                THEN /\ n.state = arg["statusId"]
                     /\ "_service" \in DOMAIN n.extra
                     /\ n.extra["_service"] = "SoftLayer_Virtual_Guest"
                ELSE IF hasH
                THEN /\ n.state = arg["hardwareStatusId"]
                     /\ "_service" \in DOMAIN n.extra
                     /\ n.extra["_service"] = SOFTLAYER_SERVICE_HARDWARE
                ELSE /\ n.state = 0
                     /\ "_service" \notin DOMAIN n.extra

\* C10: list_nodes issues exactly one remote call, getObject of the account
\* service with the object mask of both collections, and for every reply
\* returns one node per hardware record followed by one per virtual-guest
\* record, each in the order of the reply.
C10_ListNodesConcatenates ==
    op = "list_nodes"
    => /\ Len(log) = 1
       /\ log[1].service = "SoftLayer_Account"
       /\ log[1].method = "getObject"
       /\ Len(log[1].params[1].headers.objectMask) = 1
       /\ DOMAIN log[1].params[1].headers.objectMask[1].mask
              = {"hardware", "virtualGuests"}
       /\ log[1].outcome = "reply"
          => LET hosts == log[1].account.hardware \o log[1].account.virtualGuests IN
             /\ result.kind = "return"
             /\ Len(result.nodes) = Len(hosts)
             /\ \A i \in 1..Len(hosts) :
                   /\ result.nodes[i].id = hosts[i]["id"]
                   /\ result.nodes[i].name = hosts[i]["hostname"]

====
